---- MODULE Spec2Model ----
(***************************************************************************)
(* Model of Rustdrynth (src/src/main.rs), a command-line client of the     *)
(* Modrinth REST API.  One run of the program is modelled: main probes the *)
(* mods directory, parses the command line and runs the matching handler.  *)
(* The network and the filesystem are the environment: every response a    *)
(* GET can produce and every outcome a filesystem call can have is chosen  *)
(* nondeterministically where the code issues the call.                    *)
(*                                                                         *)
(* Text that the code inspects character by character (the facet fragment, *)
(* the search query) is a sequence of one-character strings.  Text that is *)
(* only formatted and printed is a TLA+ string.                            *)
(***************************************************************************)
EXTENDS Integers, Sequences, FiniteSets, TLC

VARIABLES
    pc,                 \* position of the run in main and its handlers
    cmd,                \* cli.command, the parsed command line
    platform,           \* whoami::platform()
    mcDir,              \* state of the platform's .minecraft candidate path
    cwd,                \* current working directory: filename -> content
    mods,               \* mods directory: filename -> content
    gets,               \* URLs of the GET requests sent so far, in order
    writes,             \* fs::write calls made so far, in order
    out,                \* what has been printed to standard output, in order
    facet,              \* the facet fragment built by adapt_to_facet
    processed_response, \* get_download_link's decoded Vec<GameVersion>
    game_files,         \* the Result<GameFiles, _> of get_download_link
    prj_versions,       \* project_dependencies' decoded Vec<ProjectVersion>
    dep,                \* index of the next dependency of the for loop
    status,             \* status class of the file response in download_jar
    result,             \* the Result<(), _> the handler returned
    exit                \* how the process ended

vars == <<pc, cmd, platform, mcDir, cwd, mods, gets, writes, out, facet,
          processed_response, game_files, prj_versions, dep, status,
          result, exit>>

-----------------------------------------------------------------------------
(* Bounds of the model.                                                    *)

MaxCats == 3        \* longest category list on the command line
MaxVersions == 2    \* longest version list a response decodes to
MaxDeps == 2        \* longest dependency list of one version
MaxHits == 2        \* longest hit list of a search response
MaxFiles == 2       \* longest file list of one version

\* All sequences over S of length at most n.
SeqsUpTo(S, n) == UNION {[1..k -> S] : k \in 0..n}

\* The sequences of SeqsUpTo(S, n) that repeat no element.
DistinctSeqsUpTo(S, n) ==
    {s \in SeqsUpTo(S, n) : \A i, j \in 1..Len(s) : s[i] = s[j] => i = j}

-----------------------------------------------------------------------------
(* Values of the environment and of the command line.                      *)

Platforms == {"Windows", "Linux", "Other"}

Loaders == {"fabric", "forge"}
Projects == {"sodium"}
GameVersionStrings == {"1.20.1"}

\* Category strings; the last one holds the characters remove_last_char
\* looks for.
Categories == {<<"o", "p", "t">>, <<"f", "a", "b">>, <<"a", ",", "\"", "]">>}

\* Game versions of the search command; the empty one is `-v ""`.
SearchVersions == {<< >>, <<"1", ".", "2", "0">>}

Queries == {<<" ", "s", "o", " ">>, <<"a", " ", "b">>}

Filenames == {"a.jar", "b.jar"}

GameFilesSet == {[url |-> "https://cdn/a", filename |-> "a.jar"],
                 [url |-> "https://cdn/b", filename |-> "b.jar"]}

\* A GameVersion: its loaders and its files.  Vec::contains only asks for
\* membership, so the loaders are kept as a set.
GameVersionSet ==
    [loaders : SUBSET Loaders, files : DistinctSeqsUpTo(GameFilesSet, MaxFiles)]

ProjectDependencySet ==
    {[project_id |-> "P1", dependency_type |-> "required"],
     [project_id |-> "P2", dependency_type |-> "optional"]}

ProjectVersionSet ==
    [dependencies : SeqsUpTo(ProjectDependencySet, MaxDeps)]

\* The project the server holds under each id or slug.
ProjectResponseOf(id) ==
    CASE id = "P1" -> [title |-> "Foo", slug |-> "foo", project_type |-> "mod",
                       categories |-> <<"fabric", "utility">>, body |-> "Foo body"]
      [] id = "P2" -> [title |-> "Bar", slug |-> "bar", project_type |-> "mod",
                       categories |-> << >>, body |-> "Bar body"]
      [] OTHER     -> [title |-> "Sodium", slug |-> "sodium", project_type |-> "mod",
                       categories |-> <<"optimization">>, body |-> "Sodium body"]

HitSet == {[slug |-> "sodium", title |-> "Sodium", description |-> "Fast"],
           [slug |-> "lithium", title |-> "Lithium", description |-> "Logic"]}

\* What a GET can produce before the body is decoded: send() fails, text()
\* fails, or a body arrives, which then decodes or does not.
TransportOutcomes == {"send_err", "text_err"}

-----------------------------------------------------------------------------
(* Results.                                                                *)

NoResult == [tag |-> "None", kind |-> "", val |-> << >>]
Ok(v) == [tag |-> "Ok", kind |-> "", val |-> v]
Err(k) == [tag |-> "Err", kind |-> k, val |-> << >>]

\* The text a library error prints with {}.
ErrorText(k) == "<" \o k \o " error>"

-----------------------------------------------------------------------------
(* remove_last_char and adapt_to_facet.                                    *)

\* str::find: the index of the first c in string, 0 when there is none.
find(string, c) ==
    IF \E i \in 1..Len(string) : string[i] = c
    THEN CHOOSE i \in 1..Len(string) :
             string[i] = c /\ \A j \in 1..(i - 1) : string[j] # c
    ELSE 0

\* str::rfind: the index of the last c in string, 0 when there is none.
rfind(string, c) ==
    IF \E i \in 1..Len(string) : string[i] = c
    THEN CHOOSE i \in 1..Len(string) :
             string[i] = c /\ \A j \in (i + 1)..Len(string) : string[j] # c
    ELSE 0

\* remove_last_char with find in the place of rfind.
remove_first_char(string, c) ==
    LET index == find(string, c) IN
    IF index # 0
    THEN SubSeq(string, 1, index - 1) \o SubSeq(string, index + 1, Len(string))
    ELSE string

remove_last_char(string, c) ==
    LET index == rfind(string, c) IN
    IF index # 0
    THEN SubSeq(string, 1, index - 1) \o SubSeq(string, index + 1, Len(string))
    ELSE string

\* "&facets=[[\"project_type=mod\"],"
FacetStart ==
    <<"&", "f", "a", "c", "e", "t", "s", "=", "[", "[", "\"",
      "p", "r", "o", "j", "e", "c", "t", "_", "t", "y", "p", "e", "=",
      "m", "o", "d", "\"", "]", ",">>

facet_1 == <<"[", "\"">>
facet_2 == <<"\"", "]", ",">>

CategoriesKey == <<"c", "a", "t", "e", "g", "o", "r", "i", "e", "s", ":">>
VersionsKey == <<"v", "e", "r", "s", "i", "o", "n", "s", ":">>

\* The for loop of adapt_to_facet: push one filter per category, in order.
RECURSIVE PushCategories(_, _)
PushCategories(f, categories) ==
    IF categories = << >>
    THEN f
    ELSE PushCategories(f \o facet_1 \o CategoriesKey \o Head(categories) \o facet_2,
                        Tail(categories))

adapt_to_facet(categories, game_version) ==
    LET f0 == PushCategories(FacetStart, categories)
        f1 == IF game_version # << >>
              THEN f0 \o facet_1 \o VersionsKey \o game_version \o facet_2
              ELSE f0
        f2 == f1 \o facet_2
        f3 == remove_last_char(f2, ",")
        f4 == remove_last_char(f3, "\"")
    IN  remove_last_char(f4, ",")

-----------------------------------------------------------------------------
(* check_for_mods_dir.                                                     *)
(* mcDir is the state of the platform's candidate path: "absent" (no       *)
(* .minecraft directory), "nomods" (.minecraft without mods) or "mods".    *)

ModsDirPath ==
    IF platform = "Windows"
    THEN "C:/Users/<user>/AppData/Roaming/.minecraft/mods"
    ELSE "~/.minecraft/mods"

\* The String check_for_mods_dir returns when it is called in state d.
check_for_mods_dir(d) ==
    IF platform \in {"Windows", "Linux"} /\ d # "absent" THEN ModsDirPath ELSE ""

\* The states one call of check_for_mods_dir can leave the candidate path
\* in: fs::create_dir may fail and its result is dropped.
AfterCheck(d) ==
    IF platform \in {"Windows", "Linux"} /\ d = "nomods"
    THEN {"mods", "nomods"}
    ELSE {d}

-----------------------------------------------------------------------------
(* URLs, as the pieces format! puts together.                              *)

VersionUrl(project, loader, game_version) ==
    <<"https://api.modrinth.com/v2/project/", project,
      "/version?loader=[\"", loader, "\"]&game_versions=[\"", game_version, "\"]">>

ProjectUrl(project) == <<"https://api.modrinth.com/v2/project/", project>>

SearchUrlStart == <<"https://api.modrinth.com/v2/search?query=">>

\* str::trim on the characters of the model: drops leading and trailing
\* spaces.
RECURSIVE trim_start(_)
trim_start(s) ==
    IF s # << >> /\ Head(s) = " " THEN trim_start(Tail(s)) ELSE s

RECURSIVE trim_end(_)
trim_end(s) ==
    IF s # << >> /\ s[Len(s)] = " " THEN trim_end(SubSeq(s, 1, Len(s) - 1)) ELSE s

trim(s) == trim_end(trim_start(s))

\* slice::first
first(s) == IF s = << >> THEN [tag |-> "None"] ELSE [tag |-> "Some", val |-> s[1]]

-----------------------------------------------------------------------------
(* The command line.                                                       *)

NoCategories == [present |-> FALSE, list |-> << >>]
SomeCategories(l) == [present |-> TRUE, list |-> l]

SearchCommands ==
    [kind : {"Search"}, query : Queries,
     categories : {NoCategories} \cup
                  {SomeCategories(l) : l \in SeqsUpTo(Categories, MaxCats)},
     game_version : SearchVersions]

DownloadCommands ==
    [kind : {"Download"}, project : Projects, game_version : GameVersionStrings,
     loader : Loaders, minecraft_dir : BOOLEAN]

InfoCommands == [kind : {"Info"}, project : Projects]

DependenciesCommands ==
    [kind : {"Dependencies"}, project : Projects,
     game_version : GameVersionStrings, loader : Loaders]

NoCommands == [kind : {"None"}]

Commands ==
    SearchCommands \cup DownloadCommands \cup InfoCommands
        \cup DependenciesCommands \cup NoCommands

-----------------------------------------------------------------------------
(* The initial state: the process has started, nothing has run.            *)

\* One file is already there in each directory and one is not, so that a
\* write can create a file and can truncate one.
InitialFiles == [f \in Filenames |-> IF f = "a.jar" THEN "old" ELSE "absent"]
NoFiles == [f \in Filenames |-> "absent"]

InitEnv ==
    /\ platform \in Platforms
    /\ mcDir \in IF platform = "Other" THEN {"absent"} ELSE {"absent", "nomods", "mods"}
    /\ cwd = InitialFiles
    /\ mods = IF mcDir = "mods" THEN InitialFiles ELSE NoFiles

InitRun ==
    /\ gets = << >>
    /\ writes = << >>
    /\ out = << >>
    /\ facet = << >>
    /\ processed_response = << >>
    /\ game_files = NoResult
    /\ prj_versions = << >>
    /\ dep = 0
    /\ status = "none"
    /\ result = NoResult
    /\ exit = "running"

Init ==
    /\ pc = "main"
    /\ cmd \in Commands
    /\ InitEnv
    /\ InitRun

Panic ==
    /\ pc' = "done"
    /\ exit' = "panic"

-----------------------------------------------------------------------------
(* main, lines 91-97: the probe of the mods directory.                     *)

NoMinecraftMessage ==
    "Couldn't find the .mincraft directory, mods won't be installed there even if asked for"

Main ==
    /\ pc = "main"
    /\ \E d \in AfterCheck(mcDir) : mcDir' = d
    /\ out' = IF check_for_mods_dir(mcDir) = "" THEN <<NoMinecraftMessage>> ELSE << >>
    /\ pc' = "dispatch"
    /\ UNCHANGED <<cmd, platform, cwd, mods, gets, writes, facet,
                   processed_response, game_files, prj_versions, dep, status,
                   result, exit>>

\* main, lines 117-120: no subcommand.
NoCommand ==
    /\ pc = "dispatch"
    /\ cmd.kind = "None"
    /\ out' = Append(out, "no command found")
    /\ result' = Ok(<< >>)
    /\ pc' = "return"
    /\ UNCHANGED <<cmd, platform, mcDir, cwd, mods, gets, writes, facet,
                   processed_response, game_files, prj_versions, dep, status,
                   exit>>

\* main, lines 98 and 121-123: the handler's result is dropped and main
\* returns Ok(()).
MainReturn ==
    /\ pc = "return"
    /\ pc' = "done"
    /\ exit' = "ok"
    /\ UNCHANGED <<cmd, platform, mcDir, cwd, mods, gets, writes, out, facet,
                   processed_response, game_files, prj_versions, dep, status,
                   result>>

-----------------------------------------------------------------------------
(* The Search command.                                                     *)

\* main, lines 99-100: categories.as_ref().unwrap() on an absent option.
search_unwrap_panic ==
    /\ pc = "dispatch"
    /\ cmd.kind = "Search"
    /\ ~cmd.categories.present
    /\ Panic
    /\ UNCHANGED <<cmd, platform, mcDir, cwd, mods, gets, writes, out, facet,
                   processed_response, game_files, prj_versions, dep, status,
                   result>>

\* The two println! of one hit, for each hit in order.
RECURSIVE PrintHits(_)
PrintHits(hits) ==
    IF hits = << >>
    THEN << >>
    ELSE <<"\"" \o Head(hits).title \o "\" : " \o Head(hits).slug,
           Head(hits).description \o "\n">> \o PrintHits(Tail(hits))

\* search_mods returning Ok(()) once the hits are printed.
search_mods_result_ok(outcome) ==
    CASE outcome \in TransportOutcomes -> Err("transport")
      [] outcome = "decode_err" -> Err("decode")
      [] OTHER -> Ok(<< >>)

\* What search_mods returns: the ? of send and text, the decode error, or
\* the Err of its last line after the hits are printed.
search_mods_result(outcome) ==
    CASE outcome \in TransportOutcomes -> Err("transport")
      [] outcome = "decode_err" -> Err("decode")
      [] OTHER -> Err("NotFound")

\* The facet block of search_mods.
search_facet(categories, game_version) ==
    IF categories # << >> THEN adapt_to_facet(categories, game_version) ELSE << >>

search_mods ==
    /\ pc = "dispatch"
    /\ cmd.kind = "Search"
    /\ cmd.categories.present
    /\ facet' = search_facet(cmd.categories.list, cmd.game_version)
    /\ gets' = Append(gets, SearchUrlStart \o trim(cmd.query) \o facet')
    /\ \/ /\ \E o \in TransportOutcomes : result' = search_mods_result(o)
          /\ out' = out
       \/ /\ result' = search_mods_result("decode_err")
          /\ out' = Append(out, "Couldn't find any mods matching the query")
       \/ \E hits \in SeqsUpTo(HitSet, MaxHits) :
              /\ result' = search_mods_result("hits")
              /\ out' = out \o PrintHits(hits)
    /\ pc' = "return"
    /\ UNCHANGED <<cmd, platform, mcDir, cwd, mods, writes,
                   processed_response, game_files, prj_versions, dep, status,
                   exit>>

-----------------------------------------------------------------------------
(* The Info command.                                                       *)

\* The print! of each category, in order.
PrintCategories(categories) == categories

project_info ==
    /\ pc = "dispatch"
    /\ cmd.kind = "Info"
    /\ gets' = Append(gets, ProjectUrl(cmd.project))
    /\ \/ /\ \E o \in TransportOutcomes : result' = Err("transport")
          /\ out' = out
       \/ /\ result' = Err("decode")
          /\ out' = Append(out, ErrorText("decode"))
       \/ LET project == ProjectResponseOf(cmd.project) IN
          /\ result' = Ok(<< >>)
          /\ out' = (Append(out, project.project_type \o " - " \o project.title)
                        \o PrintCategories(project.categories))
                        \o <<"\n\n" \o project.body \o "\n">>
    /\ pc' = "return"
    /\ UNCHANGED <<cmd, platform, mcDir, cwd, mods, writes, facet,
                   processed_response, game_files, prj_versions, dep, status,
                   exit>>

-----------------------------------------------------------------------------
(* The Dependencies command.                                               *)

\* get_project: the Result it returns and what it prints, for each thing
\* its GET can produce.
get_project(project_id, outcome) ==
    CASE outcome \in TransportOutcomes ->
             [result |-> Err("transport"), printed |-> << >>]
      [] outcome = "decode_err" ->
             [result |-> Err("decode"), printed |-> <<"Couldn't get the project">>]
      [] OTHER ->
             [result |-> Ok(ProjectResponseOf(project_id)), printed |-> << >>]

\* The dependency line with title and slug swapped.
dependency_line_swapped(dependency, dependency_project) ==
    dependency.dependency_type \o ": \"" \o dependency_project.slug
        \o "\" - " \o dependency_project.title

\* println!("{}: \"{}\" - {}", ...)
dependency_line(dependency, dependency_project) ==
    dependency.dependency_type \o ": \"" \o dependency_project.title
        \o "\" - " \o dependency_project.slug

\* The dependencies of every version, one list after the other.
RECURSIVE all_dependencies(_)
all_dependencies(versions) ==
    IF versions = << >>
    THEN << >>
    ELSE Head(versions).dependencies \o all_dependencies(Tail(versions))

\* first_prj_v.dependencies: the dependency list of the first version.
first_dependencies(versions) == first(versions).val.dependencies

\* Lines 174-181 and 186-195: the version list is fetched and decoded, and
\* the first version is taken.
project_dependencies ==
    /\ pc = "dispatch"
    /\ cmd.kind = "Dependencies"
    /\ gets' = Append(gets, VersionUrl(cmd.project, cmd.loader, cmd.game_version))
    /\ \/ /\ \E o \in TransportOutcomes : result' = Err("transport")
          /\ out' = out
          /\ pc' = "return"
          /\ UNCHANGED <<prj_versions, dep, exit>>
       \/ /\ result' = Err("decode")
          /\ out' = Append(out, ErrorText("decode"))
          /\ pc' = "return"
          /\ UNCHANGED <<prj_versions, dep, exit>>
       \/ \E versions \in SeqsUpTo(ProjectVersionSet, MaxVersions) :
              /\ prj_versions' = versions
              /\ IF first(versions).tag = "None"
                 THEN /\ Panic
                      /\ UNCHANGED <<out, dep, result>>
                 ELSE IF first_dependencies(versions) # << >>
                 THEN /\ dep' = 1
                      /\ pc' = "dependencies"
                      /\ UNCHANGED <<out, result, exit>>
                 ELSE /\ out' = Append(out, "No dependencies found on this project's version")
                      /\ result' = Err("NotFound")
                      /\ pc' = "return"
                      /\ UNCHANGED <<dep, exit>>
    /\ UNCHANGED <<cmd, platform, mcDir, cwd, mods, writes, facet,
                   processed_response, game_files, status>>

\* Lines 182-185: one turn of the for loop, with its get_project call and
\* the unwrap of what it returns.
project_dependencies_loop ==
    /\ pc = "dependencies"
    /\ dep <= Len(first_dependencies(prj_versions))
    /\ LET dependency == first_dependencies(prj_versions)[dep] IN
       /\ gets' = Append(gets, ProjectUrl(dependency.project_id))
       /\ \E o \in TransportOutcomes \cup {"decode_err", "ok"} :
              LET got == get_project(dependency.project_id, o) IN
              IF got.result.tag = "Ok"
              THEN /\ out' = (out \o got.printed)
                                \o <<dependency_line(dependency, got.result.val)>>
                   /\ dep' = dep + 1
                   /\ UNCHANGED <<pc, exit>>
              ELSE /\ out' = out \o got.printed
                   /\ Panic
                   /\ UNCHANGED dep
    /\ UNCHANGED <<cmd, platform, mcDir, cwd, mods, writes, facet,
                   processed_response, game_files, prj_versions, status, result>>

\* Line 196: the loop is over and the handler returns Ok(()).
project_dependencies_return ==
    /\ pc = "dependencies"
    /\ dep > Len(first_dependencies(prj_versions))
    /\ result' = Ok(<< >>)
    /\ pc' = "return"
    /\ UNCHANGED <<cmd, platform, mcDir, cwd, mods, gets, writes, out, facet,
                   processed_response, game_files, prj_versions, dep, status,
                   exit>>

-----------------------------------------------------------------------------
(* The Download command.                                                   *)

\* A panic inside a function that returns a Result.
Panicked == [tag |-> "Panic", kind |-> "unwrap", val |-> << >>]

\* What one matching version gives: its first file, or the panic of
\* files.first().unwrap() on an empty file list.
first_file(version) ==
    IF first(version.files).tag = "None"
    THEN Panicked
    ELSE Ok(first(version.files).val)

\* The scan taking the last version that holds the loader.
RECURSIVE scan_versions_last(_, _)
scan_versions_last(versions, loader) ==
    IF versions = << >>
    THEN Err("NotFound")
    ELSE LET later == scan_versions_last(Tail(versions), loader) IN
         IF later.tag # "Err"
         THEN later
         ELSE IF loader \in Head(versions).loaders
              THEN first_file(Head(versions))
              ELSE later

\* Lines 232-237: the for loop over the decoded versions and the Err after
\* it.
RECURSIVE scan_versions(_, _)
scan_versions(versions, loader) ==
    IF versions = << >>
    THEN Err("NotFound")
    ELSE IF loader \in Head(versions).loaders
         THEN first_file(Head(versions))
         ELSE scan_versions(Tail(versions), loader)

\* main, line 104.  processed_response keeps the decoded list until the
\* next step of main, so that what was returned can be compared with it.
get_download_link ==
    /\ pc = "dispatch"
    /\ cmd.kind = "Download"
    /\ gets' = Append(gets, VersionUrl(cmd.project, cmd.loader, cmd.game_version))
    /\ \/ /\ \E o \in TransportOutcomes : game_files' = Err("transport")
          /\ out' = out
          /\ pc' = "download_jar"
          /\ UNCHANGED <<processed_response, exit>>
       \/ /\ game_files' = Err("decode")
          /\ out' = Append(out, ErrorText("decode"))
          /\ pc' = "download_jar"
          /\ UNCHANGED <<processed_response, exit>>
       \/ \E versions \in SeqsUpTo(GameVersionSet, MaxVersions) :
              LET found == scan_versions(versions, cmd.loader) IN
              /\ processed_response' = versions
              /\ out' = out
              /\ IF found.tag = "Panic"
                 THEN /\ Panic
                      /\ UNCHANGED game_files
                 ELSE /\ game_files' = found
                      /\ pc' = "download_jar"
                      /\ UNCHANGED exit
    /\ UNCHANGED <<cmd, platform, mcDir, cwd, mods, writes, facet,
                   prj_versions, dep, status, result>>

\* main, line 105: game_files.unwrap() on an Err.
download_unwrap_panic ==
    /\ pc = "download_jar"
    /\ game_files.tag = "Err"
    /\ Panic
    /\ UNCHANGED <<cmd, platform, mcDir, cwd, mods, gets, writes, out, facet,
                   processed_response, game_files, prj_versions, dep, status,
                   result>>

\* What fs::write can do to a file whose content is old: write it, fail
\* before touching it, or fail after creating or truncating it.
WriteOutcomes(old) ==
    {[ok |-> TRUE, content |-> "new"],
     [ok |-> FALSE, content |-> old],
     [ok |-> FALSE, content |-> "partial"]}

\* fs::write into a directory that does not exist.
WriteNoDir(old) == {[ok |-> FALSE, content |-> old]}

\* A download_jar that takes every response for a success.
status_always_success(st) == TRUE

\* resp.status().is_success()
status_is_success(st) == st = "success"

\* Lines 244-249: the branch of download_jar that writes the file.  The
\* Result of fs::write is dropped, and bytes? returns the error of bytes().
download_jar_write(file, mcdir) ==
    \E bytes_ok \in BOOLEAN, d1 \in AfterCheck(mcDir) :
        IF check_for_mods_dir(mcDir) # "" /\ mcdir
        THEN \E d2 \in AfterCheck(d1) :
                 /\ mcDir' = d2
                 /\ cwd' = cwd
                 /\ IF bytes_ok
                    THEN \E w \in IF d2 = "mods"
                                  THEN WriteOutcomes(mods[file.filename])
                                  ELSE WriteNoDir(mods[file.filename]) :
                             /\ mods' = [mods EXCEPT ![file.filename] = w.content]
                             /\ writes' = Append(writes,
                                    [path |-> check_for_mods_dir(d1) \o "/" \o file.filename,
                                     ok |-> w.ok])
                             /\ result' = Ok(<< >>)
                    ELSE /\ result' = Err("transport")
                         /\ UNCHANGED <<mods, writes>>
        ELSE /\ mcDir' = d1
             /\ mods' = mods
             /\ IF bytes_ok
                THEN \E w \in WriteOutcomes(cwd[file.filename]) :
                         /\ cwd' = [cwd EXCEPT ![file.filename] = w.content]
                         /\ writes' = Append(writes,
                                [path |-> file.filename, ok |-> w.ok])
                         /\ result' = Ok(<< >>)
                ELSE /\ result' = Err("transport")
                     /\ UNCHANGED <<cwd, writes>>

\* main, line 105, and download_jar.
download_jar ==
    /\ pc = "download_jar"
    /\ game_files.tag = "Ok"
    /\ LET file == game_files.val IN
       /\ gets' = Append(gets, <<file.url>>)
       /\ \/ /\ status' = "none"
             /\ result' = Err("transport")
             /\ out' = Append(out, "Downloading " \o file.filename \o " from " \o file.url)
             /\ UNCHANGED <<mcDir, cwd, mods, writes>>
          \/ \E st \in {"success", "non_success"} :
                 /\ status' = st
                 /\ IF status_is_success(st)
                    THEN /\ download_jar_write(file, cmd.minecraft_dir)
                         /\ out' = Append(out, "Downloading " \o file.filename
                                                   \o " from " \o file.url)
                    ELSE /\ out' = out \o <<"Downloading " \o file.filename
                                                \o " from " \o file.url,
                                            "Couldn't get file from " \o file.url>>
                         /\ result' = Ok(<< >>)
                         /\ UNCHANGED <<mcDir, cwd, mods, writes>>
    /\ processed_response' = << >>
    /\ pc' = "return"
    /\ UNCHANGED <<cmd, platform, facet, game_files, prj_versions, dep, exit>>

-----------------------------------------------------------------------------
(* The run of the program.                                                 *)

Next ==
    \/ Main
    \/ NoCommand
    \/ search_unwrap_panic
    \/ search_mods
    \/ project_info
    \/ project_dependencies
    \/ project_dependencies_loop
    \/ project_dependencies_return
    \/ get_download_link
    \/ download_unwrap_panic
    \/ download_jar
    \/ MainReturn

Spec == Init /\ [][Next]_vars

-----------------------------------------------------------------------------
(* adapt_to_facet on its own: every category list, the empty one included, *)
(* and every game version.                                                 *)

FacetInit ==
    /\ pc = "adapt_to_facet"
    /\ cmd \in [kind : {"Search"}, query : Queries,
                categories : {SomeCategories(l) : l \in SeqsUpTo(Categories, MaxCats)},
                game_version : SearchVersions]
    /\ platform = "Other"
    /\ mcDir = "absent"
    /\ cwd = NoFiles
    /\ mods = NoFiles
    /\ InitRun

ApplyFacet ==
    /\ pc = "adapt_to_facet"
    /\ facet' = adapt_to_facet(cmd.categories.list, cmd.game_version)
    /\ pc' = "done"
    /\ UNCHANGED <<cmd, platform, mcDir, cwd, mods, gets, writes, out,
                   processed_response, game_files, prj_versions, dep, status,
                   result, exit>>

FacetNext == ApplyFacet

FacetSpec == FacetInit /\ [][FacetNext]_vars

-----------------------------------------------------------------------------
(* Properties.                                                             *)

\* What the handler printed: out without the message main prints first
\* when no mods directory is found.
HandlerOut ==
    IF out # << >> /\ out[1] = NoMinecraftMessage THEN Tail(out) ELSE out

\* Entry i of the decoded version list is the first one whose loaders hold
\* the requested loader.
IsFirstMatch(i) ==
    /\ i \in 1..Len(processed_response)
    /\ cmd.loader \in processed_response[i].loaders
    /\ \A j \in 1..(i - 1) : cmd.loader \notin processed_response[j].loaders

\* C1: once get_download_link has decoded a version list, what it returns is
\* the first file of the first entry, in list order, whose loaders contain
\* the requested loader (that entry having a file): entries before it that
\* lack the loader are skipped, later matching entries and further files of
\* the entry are not taken.
C1_FirstMatch ==
    (cmd.kind = "Download" /\ pc \in {"download_jar", "done"}) =>
        /\ \A i \in 1..Len(processed_response) :
               (IsFirstMatch(i) /\ processed_response[i].files # << >>) =>
                   game_files = Ok(processed_response[i].files[1])
        /\ (pc = "download_jar" /\ game_files.tag = "Ok") =>
               \E i \in 1..Len(processed_response) :
                   /\ IsFirstMatch(i)
                   /\ processed_response[i].files # << >>
                   /\ game_files.val.url = processed_response[i].files[1].url
                   /\ game_files.val.filename = processed_response[i].files[1].filename

\* Two entries hold the loader, the first of them has two files, and the
\* first file of the second entry is another one: the first entry's first
\* file was returned.
C1_Witness ==
    /\ cmd.kind = "Download"
    /\ pc = "download_jar"
    /\ Len(processed_response) = 2
    /\ cmd.loader \in processed_response[1].loaders
    /\ cmd.loader \in processed_response[2].loaders
    /\ Len(processed_response[1].files) = 2
    /\ processed_response[2].files # << >>
    /\ processed_response[2].files[1] # processed_response[1].files[1]
    /\ game_files = Ok(processed_response[1].files[1])

\* C2: when the version list of the Download command decodes and no entry
\* holds the requested loader, the command ends with a "not found" error and
\* not with a crash, sends no GET for a file and writes no file.
C2_NotFoundReported ==
    (/\ cmd.kind = "Download"
     /\ pc = "done"
     /\ game_files = Err("NotFound")
     /\ \A i \in 1..Len(processed_response) :
            cmd.loader \notin processed_response[i].loaders) =>
        /\ exit # "panic"
        /\ result = Err("NotFound")
        /\ Len(gets) = 1
        /\ writes = << >>

\* C3: the step of download_jar whose file response has a non-success
\* status leaves both directories as they were and calls fs::write not at
\* all, whatever the mcdir flag.
C3_NoWriteOnFailure ==
    [][(pc = "download_jar" /\ status' = "non_success") =>
           (cwd' = cwd /\ mods' = mods /\ mcDir' = mcDir /\ writes' = writes)]_vars

\* download_jar has returned after a non-success status, with the mcdir
\* flag set and a mods directory there to write into.
C3_Witness ==
    /\ cmd.kind = "Download"
    /\ pc = "return"
    /\ status = "non_success"
    /\ cmd.minecraft_dir
    /\ mcDir = "mods"
    /\ result.tag = "Ok"

\* C4: when the file GET succeeded and the write of its bytes failed,
\* download_jar returns an error.
C4_WriteFailureIsError ==
    (/\ cmd.kind = "Download"
     /\ pc \in {"return", "done"}
     /\ status = "success"
     /\ writes # << >>
     /\ ~writes[Len(writes)].ok) =>
        result.tag = "Err"

\* A decode failure has been printed by project_dependencies (the outer
\* response) or by get_project (a dependency's response).
DependenciesDecodeFailed ==
    \E i \in 1..Len(HandlerOut) :
        HandlerOut[i] \in {ErrorText("decode"), "Couldn't get the project"}

\* C5: a decode failure of the version list or of a dependency's project
\* response makes project_dependencies return an error, without a crash,
\* and it is the last thing the handler does: no lookup and no line follow.
C5_DecodeFailureReturned ==
    (/\ cmd.kind = "Dependencies"
     /\ pc = "done"
     /\ DependenciesDecodeFailed) =>
        /\ exit # "panic"
        /\ result = Err("decode")
        /\ HandlerOut[Len(HandlerOut)] \in
               {ErrorText("decode"), "Couldn't get the project"}

\* "&facets=[[\"project_type=mod\"]"
ExpectedFacetHead ==
    <<"&", "f", "a", "c", "e", "t", "s", "=", "[", "[", "\"",
      "p", "r", "o", "j", "e", "c", "t", "_", "t", "y", "p", "e", "=",
      "m", "o", "d", "\"", "]">>

\* One sibling clause, with the comma that separates it from the clause
\* before it: ,["<key><value>"]
ExpectedClause(key, value) ==
    <<",", "[", "\"">> \o key \o value \o <<"\"", "]">>

RECURSIVE ExpectedCategoryClauses(_)
ExpectedCategoryClauses(categories) ==
    IF categories = << >>
    THEN << >>
    ELSE ExpectedClause(CategoriesKey, Head(categories))
             \o ExpectedCategoryClauses(Tail(categories))

\* The fragment the facet syntax asks for.
ExpectedFacet(categories, game_version) ==
    ExpectedFacetHead
        \o ExpectedCategoryClauses(categories)
        \o (IF game_version = << >> THEN << >>
            ELSE ExpectedClause(VersionsKey, game_version))
        \o <<"]">>

\* C6: the Search command sends exactly one GET, to the search URL made of
\* the trimmed query and of the facet fragment, and the fragment is empty
\* exactly when no category was given (the option left out, or an empty
\* list).
C6_OneSearchGet ==
    (cmd.kind = "Search" /\ pc = "done") =>
        /\ Len(gets) = 1
        /\ gets[1] = SearchUrlStart \o trim_end(trim_start(cmd.query))
                        \o (IF cmd.categories.list = << >>
                            THEN << >>
                            ELSE ExpectedFacet(cmd.categories.list, cmd.game_version))

\* C7: for every category list and game version, adapt_to_facet returns the
\* start of the fragment, one categories clause per category in order, a
\* versions clause exactly when the version is not empty, single commas
\* between the clauses and one closing bracket.
C7_FacetTerminated ==
    pc = "done" =>
        facet = ExpectedFacet(cmd.categories.list, cmd.game_version)

\* adapt_to_facet has run on two or more categories, one of them holding a
\* comma and a quote, and a version.
C7_Witness ==
    /\ pc = "done"
    /\ Len(cmd.categories.list) >= 2
    /\ \E i \in 1..Len(cmd.categories.list) :
           \E k \in 1..Len(cmd.categories.list[i]) : cmd.categories.list[i][k] = ","
    /\ cmd.game_version # << >>
    /\ facet[Len(facet)] = "]"
    /\ facet[Len(facet) - 1] = "]"

\* The line of one dependency, from the project the server holds for it.
ExpectedDependencyLine(d) ==
    d.dependency_type \o ": \"" \o ProjectResponseOf(d.project_id).title
        \o "\" - " \o ProjectResponseOf(d.project_id).slug

\* C8: with k lookups of the first version's dependencies done, the GETs
\* sent are the version list and then the projects of the first k
\* dependencies in order, and the lines printed are those of the first k
\* dependencies in order; when the handler returns Ok, k is the number of
\* dependencies of the first version, which is at least one.
C8_FirstVersionOnly ==
    (/\ cmd.kind = "Dependencies"
     /\ \/ pc = "dependencies"
        \/ pc \in {"return", "done"} /\ result.tag = "Ok") =>
        LET deps == prj_versions[1].dependencies
            k == dep - 1
        IN  /\ Len(deps) >= 1
            /\ k \in 0..Len(deps)
            /\ result.tag = "Ok" => k = Len(deps)
            /\ Len(gets) = k + 1
            /\ gets[1] = VersionUrl(cmd.project, cmd.loader, cmd.game_version)
            /\ \A n \in 1..k : gets[n + 1] = ProjectUrl(deps[n].project_id)
            /\ Len(HandlerOut) = k
            /\ \A n \in 1..k : HandlerOut[n] = ExpectedDependencyLine(deps[n])

\* The handler returned Ok for a first version with two different
\* dependencies, a later version having other dependencies.
C8_Witness ==
    /\ cmd.kind = "Dependencies"
    /\ pc = "return"
    /\ result.tag = "Ok"
    /\ Len(prj_versions) = 2
    /\ Len(prj_versions[1].dependencies) = 2
    /\ prj_versions[1].dependencies[1] # prj_versions[1].dependencies[2]
    /\ prj_versions[2].dependencies # << >>
    /\ prj_versions[2].dependencies # prj_versions[1].dependencies
    /\ Len(gets) = 3

\* C9: when the version list decodes and its first version has no
\* dependency, project_dependencies returns the NotFound error, after the
\* one GET of the version list and no project lookup, whatever the later
\* versions hold.
C9_NoDependencies ==
    (/\ cmd.kind = "Dependencies"
     /\ prj_versions # << >>
     /\ prj_versions[1].dependencies = << >>) =>
        /\ pc \in {"return", "done"}
        /\ result = Err("NotFound")
        /\ exit # "panic"
        /\ gets = <<VersionUrl(cmd.project, cmd.loader, cmd.game_version)>>

\* The first version has no dependency and a later one has some.
C9_Witness ==
    /\ cmd.kind = "Dependencies"
    /\ pc = "return"
    /\ Len(prj_versions) = 2
    /\ prj_versions[1].dependencies = << >>
    /\ prj_versions[2].dependencies # << >>
    /\ result = Err("NotFound")

\* C10: search_mods never returns Ok: whenever it has returned, hits
\* printed or not, its result is an Err.
C10_SearchNeverOk ==
    cmd.kind = "Search" =>
        /\ result.tag # "Ok"
        /\ pc = "return" => result.tag = "Err"

\* search_mods has returned after printing the two lines of a hit.
C10_Witness ==
    /\ cmd.kind = "Search"
    /\ pc = "return"
    /\ Len(HandlerOut) >= 2
    /\ result = Err("NotFound")

====
